---- MODULE Spec2Model ----
(***************************************************************************)
(* Dialog stack, focus placement, focus trap and dismissal of the React    *)
(* <Dialog> component (src/src/index.tsx).                                 *)
(*                                                                         *)
(* A page holds up to NDialogs Dialog instances.  The first action mounts  *)
(* the page; every later action is one user event or one state change of   *)
(* the caller, together with the React commit it triggers: DOM mutation    *)
(* and ref attachment, then every effect cleanup whose dependencies        *)
(* changed, then every effect whose dependencies changed, instance by      *)
(* instance in tree order, effects in declaration order.                   *)
(***************************************************************************)
EXTENDS Integers, Sequences, FiniteSets, TLC

\* Most Dialog instances on a page.
NDialogs == 2
\* Longest dialog content (descendant elements of a dialog root).
MaxLen == 2
\* Most renders the callers start by mounting, opening or re-rendering.
MaxCommits == 4

Dialogs == 1..NDialogs

VARIABLES
    page,       \* the caller's component tree and props (fixed per behaviour)
    opened,     \* opened[d]: the `opened` prop of instance d at its last render
    closeId,    \* closeId[d]: identity of the `close` prop at d's last render
    root,       \* root[d]: dialogRef.current, a mount id, 0 when null
    portals,    \* mounted dialog roots in document order
    dialogStack,\* the module-level Map, as its insertion-ordered entries
    focus,      \* document.activeElement
    finalT,     \* finalT[d]: finalFocusTarget captured by d's pending cleanup
    escL,       \* escL[d]: `close` captured by d's keydown (Escape) listener
    clickL,     \* clickL[d]: root and `close` captured by d's click listener
    trapL,      \* the trapFocus listeners in the order added: <<d, root captured>>
    calls,      \* calls[d]: how often the last event invoked d's close callback
    prevented,  \* the last keydown had preventDefault() called
    logged,     \* the last commit logged "Couldn't find any focusable element"
    threw,      \* the last event handler raised a TypeError
    tabbed,     \* the keydown just default-prevented: <<shiftKey, activeElement then>>
    activeBeforeOpen,  \* history: per open dialog, document.activeElement when
                       \* the render that opened it began
    closedBefore,      \* history: the dialog has been open and was closed again
    rendered,   \* rendered[x]: attributes of the <div> that the Body of instance
                \* x rendered; x = 0 is a Body outside every Dialog
    bodyLogged, \* the last commit logged "Couldn't find a value for either ..."
    renderError,\* a render threw: React reported it and unmounted the tree
    refCurrent, \* placeFinalFocusAt.current: what the caller's ref points to
    mountTarget,\* the document holds an element that the `container` selector matches
    commits     \* React commits so far; stamps the objects a commit creates

vars == <<page, opened, closeId, root, portals, dialogStack, focus, finalT,
          escL, clickL, trapL, calls, prevented, logged, threw, tabbed,
          activeBeforeOpen, closedBefore, rendered, bodyLogged, renderError,
          refCurrent, mountTarget, commits>>

----------------------------------------------------------------------------
(* Elements.  An element is <<d, m, i>>: descendant i (in document order)  *)
(* of the root mounted as mount m of dialog d; i = 0 is the root itself.   *)
(* d = 0 are the elements of the page outside every dialog.                *)

BodyEl    == <<0, 0, 0>>   \* document.body (also: nothing focused)
TriggerEl == <<0, 0, 1>>   \* a button of the page outside every dialog
NextEl    == <<0, 0, 2>>   \* the button placeFinalFocusAt refers to
NoEl      == <<0, 0, 3>>   \* undefined / null
DisabledEl == <<0, 0, 4>>  \* a disabled button of the page

\* Attributes of an element that the code reads.
\*   inter: natively tabbable tag (button, a[href]); tab: tabindex attribute;
\*   dis: matches [disabled], [hidden] (a disabled control or a hidden
\*   element, which cannot take focus); mark: carries data-place-focus;
\*   html: an HTMLElement (an <svg> is an Element that is not one);
\*   anc: some ancestor inside the dialog is hidden.
Button   == [inter |-> TRUE,  tab |-> "none", dis |-> FALSE, mark |-> FALSE,
             html |-> TRUE, anc |-> FALSE]
Static   == [inter |-> FALSE, tab |-> "none", dis |-> FALSE, mark |-> FALSE,
             html |-> TRUE, anc |-> FALSE]
\* Body renders the root with tabIndex={-1} after {...props}.
RootKind == [inter |-> FALSE, tab |-> "-1", dis |-> FALSE, mark |-> FALSE,
             html |-> TRUE, anc |-> FALSE]

RECURSIVE SeqsUpTo(_, _)
SeqsUpTo(S, n) ==
    IF n = 0 THEN {<<>>}
    ELSE LET shorter == SeqsUpTo(S, n - 1)
         IN  shorter \cup {Append(s, k) : s \in {t \in shorter : Len(t) = n - 1}, k \in S}

KindOf(e) ==
    IF e[1] = 0
    THEN IF e \in {TriggerEl, NextEl} THEN Button
         ELSE IF e = DisabledEl THEN [Button EXCEPT !.dis = TRUE] ELSE Static
    ELSE IF e[3] = 0 THEN RootKind ELSE page.content[e[1]][e[3]]

\* arg instanceof HTMLElement
IsHTMLElement(e) == e # NoEl /\ KindOf(e).html

\* element.tabIndex
TabIndex(k) ==
    IF k.tab = "none" THEN (IF k.inter THEN 0 ELSE -1)
    ELSE IF k.tab = "0" THEN 0 ELSE -1

isKeyboardFocusable_CheckingAncestors(e) ==
    IF IsHTMLElement(e)
    THEN IF KindOf(e).dis \/ KindOf(e).anc THEN FALSE ELSE TabIndex(KindOf(e)) >= 0
    ELSE FALSE

isKeyboardFocusable(e) ==
    IF IsHTMLElement(e)
    THEN IF KindOf(e).dis THEN FALSE ELSE TabIndex(KindOf(e)) >= 0
    ELSE FALSE

\* getAllDescendantElements(dialog), for the root mounted as mount m of d.
getAllDescendantElements(d, m) ==
    [i \in 1..Len(page.content[d]) |-> <<d, m, i>>]

Min(S) == CHOOSE x \in S : \A y \in S : x <= y

----------------------------------------------------------------------------
(* Identities.  A function object or a DOM node is identified by the       *)
(* commit that created it, so it is distinct from every earlier one.       *)

NoClose == <<0, 0>>

\* The callers' `const close = () => setOpened(false)`: a new function on
\* every render of the owner; one function for all instances on the pages
\* whose owner passes the same `close` to each of them.
FreshClose(d) == <<IF page.sameClose THEN 1 ELSE d, commits + 1>>

\* The <div> that Body renders when it mounts: a new node.
FreshMount(d) == commits + 1

----------------------------------------------------------------------------
(* The DOM operations the code calls.                                      *)

\* document.contains(e), given dialogRef.current of every instance.
Attached(rt, e) ==
    IF e[1] = 0 THEN e # NoEl ELSE rt[e[1]] = e[2]

\* An element can take focus: it is not disabled or hidden, and it is a
\* natively focusable tag or carries a tabindex attribute.
CanFocus(k) == ~k.dis /\ ~k.anc /\ (k.inter \/ k.tab # "none")

\* HTMLElement.focus(): the new document.activeElement, f being the old one.
FocusCall(rt, f, e) ==
    IF Attached(rt, e) /\ CanFocus(KindOf(e)) THEN e ELSE f

\* document.querySelector(container ?? 'body'): the element the portal is
\* rendered into, null when the selector matches nothing.
MountTargetEl == <<0, 0, 5>>
querySelectorContainer ==
    IF page.selector THEN (IF mountTarget THEN MountTargetEl ELSE NoEl) ELSE BodyEl

\* dialog.contains(target) for the root <<d, m>>.
Contains(rootId, t) == t[1] = rootId[1] /\ t[2] = rootId[2] /\ rootId[1] # 0

\* dialog.querySelector('[data-place-focus]'): the first marked descendant.
querySelectorPlaceFocus(d, m) ==
    LET desc   == getAllDescendantElements(d, m)
        marked == {i \in DOMAIN desc : KindOf(desc[i]).mark}
    IN  IF marked = {} THEN NoEl ELSE desc[Min(marked)]

----------------------------------------------------------------------------
(* dialogStack: Map<HTMLDivElement, [CloseCallback, ActiveElement]>.       *)

MapSet_AppendAlways(stack, key, close, prior) ==
    Append(stack, [root |-> key, close |-> close, prior |-> prior])

MapSet_MoveToEnd(stack, key, close, prior) ==
    Append(SelectSeq(stack, LAMBDA e : e.root # key),
           [root |-> key, close |-> close, prior |-> prior])

MapSet_TouchingEveryEntry(stack, key, close, prior) ==
    LET en == [root |-> key, close |-> close, prior |-> prior]
    IN  IF \E i \in DOMAIN stack : stack[i].root = key
        THEN [i \in DOMAIN stack |->
                IF stack[i].root = key THEN en ELSE [stack[i] EXCEPT !.prior = prior]]
        ELSE Append([i \in DOMAIN stack |-> [stack[i] EXCEPT !.prior = prior]], en)

\* Map.prototype.set: an existing key keeps its place, a new key goes last.
MapSet(stack, key, close, prior) ==
    LET en == [root |-> key, close |-> close, prior |-> prior]
    IN  IF \E i \in DOMAIN stack : stack[i].root = key
        THEN [i \in DOMAIN stack |-> IF stack[i].root = key THEN en ELSE stack[i]]
        ELSE Append(stack, en)

SyncWithDOM_Skipped(rt, stack) == stack

\* "Syncs with the DOM": delete every key that document.contains() rejects.
SyncWithDOM(rt, stack) ==
    SelectSeq(stack, LAMBDA en : Attached(rt, <<en.root[1], en.root[2], 0>>))

\* Array.from(dialogStack.values()).at(-1)?.[0]
uppermostDialogCloseCallback(stack) ==
    IF stack = <<>> THEN NoClose ELSE stack[Len(stack)].close

\* Array.from(dialogStack.values()).at(-1)?.[1]
activeElementBeforeDialogMount(stack) ==
    IF stack = <<>> THEN NoEl ELSE stack[Len(stack)].prior

----------------------------------------------------------------------------
(* The effects of Dialog.  An effect maps the commit context c and the     *)
(* state st threaded through the commit to the state after it.             *)
(*   c.op, c.cl, c.rt: `opened`, `close` and dialogRef.current of every    *)
(*   instance in this render.                                              *)
(*   st: [stack, focus, finalT, escL, clickL, trapL, logged]               *)

\* "Handles the dialog stack."  Dependencies: [close].
StackEffect(d, c, st) ==
    IF c.rt[d] = 0 THEN st
    ELSE [st EXCEPT !.stack =
            SyncWithDOM(c.rt, MapSet(st.stack, <<d, c.rt[d]>>, c.cl[d], st.focus))]

InitialFocusEffect_KeyboardFocusableOnly(d, c, st) ==
    IF ~c.op[d] \/ c.rt[d] = 0 THEN st
    ELSE LET explicitInitialFocusTarget == querySelectorPlaceFocus(d, c.rt[d])
             desc == getAllDescendantElements(d, c.rt[d])
             hits == {i \in DOMAIN desc : isKeyboardFocusable(desc[i])}
         IN  IF isKeyboardFocusable(explicitInitialFocusTarget)
             THEN [st EXCEPT !.focus = FocusCall(c.rt, st.focus, explicitInitialFocusTarget)]
             ELSE IF hits # {}
                  THEN [st EXCEPT !.focus = FocusCall(c.rt, st.focus, desc[Min(hits)])]
                  ELSE [st EXCEPT !.logged = TRUE]

InitialFocusEffect_ImplicitOnly(d, c, st) ==
    IF ~c.op[d] \/ c.rt[d] = 0 THEN st
    ELSE LET desc == getAllDescendantElements(d, c.rt[d])
             hits == {i \in DOMAIN desc : isKeyboardFocusable(desc[i])}
         IN  IF hits # {}
             THEN [st EXCEPT !.focus = FocusCall(c.rt, st.focus, desc[Min(hits)])]
             ELSE [st EXCEPT !.logged = TRUE]

\* "Handles initial focus placement."  Dependencies: [opened].
InitialFocusEffect(d, c, st) ==
    IF ~c.op[d] \/ c.rt[d] = 0 THEN st
    ELSE LET explicitInitialFocusTarget == querySelectorPlaceFocus(d, c.rt[d])
             desc == getAllDescendantElements(d, c.rt[d])
             hits == {i \in DOMAIN desc : isKeyboardFocusable(desc[i])}
         IN  IF \/ isKeyboardFocusable(explicitInitialFocusTarget)
                \/ /\ IsHTMLElement(explicitInitialFocusTarget)
                   /\ KindOf(explicitInitialFocusTarget).tab = "-1"
             THEN [st EXCEPT !.focus = FocusCall(c.rt, st.focus, explicitInitialFocusTarget)]
             ELSE IF hits # {}
                  THEN [st EXCEPT !.focus = FocusCall(c.rt, st.focus, desc[Min(hits)])]
                  ELSE [st EXCEPT !.logged = TRUE]

FinalFocusEffect_PriorOnly(d, c, st) ==
    IF ~c.op[d] THEN st
    ELSE [st EXCEPT !.finalT[d] = activeElementBeforeDialogMount(st.stack)]

\* "Handles final focus placement."  Dependencies: [opened, placeFinalFocusAt].
\* The effect body fixes finalFocusTarget; the cleanup it returns uses it.
FinalFocusEffect(d, c, st) ==
    IF ~c.op[d] THEN st
    ELSE [st EXCEPT !.finalT[d] =
            IF page.finalRef[d] /\ refCurrent # NoEl THEN refCurrent
            ELSE activeElementBeforeDialogMount(st.stack)]

FinalFocusCleanup_AtTeardown(d, c, st) ==
    LET finalFocusTarget == IF page.finalRef[d] /\ refCurrent # NoEl THEN refCurrent
                            ELSE activeElementBeforeDialogMount(st.stack)
    IN  [st EXCEPT !.focus = IF isKeyboardFocusable(finalFocusTarget)
                             THEN FocusCall(c.rt, st.focus, finalFocusTarget)
                             ELSE st.focus,
                   !.finalT[d] = NoEl]

FinalFocusCleanup_WithFallback(d, c, st) ==
    [st EXCEPT !.focus = IF isKeyboardFocusable(st.finalT[d])
                         THEN FocusCall(c.rt, st.focus, st.finalT[d])
                         ELSE FocusCall(c.rt, st.focus, TriggerEl),
               !.finalT[d] = NoEl]

FinalFocusCleanup(d, c, st) ==
    [st EXCEPT !.focus = IF isKeyboardFocusable(st.finalT[d])
                         THEN FocusCall(c.rt, st.focus, st.finalT[d])
                         ELSE st.focus,
               !.finalT[d] = NoEl]

\* "Handles focus trapping."  Dependencies: [opened].
TrapEffect(d, c, st) ==
    IF ~c.op[d] \/ c.rt[d] = 0 THEN st
    ELSE [st EXCEPT !.trapL = Append(st.trapL, <<d, c.rt[d]>>)]

TrapCleanup(d, c, st) ==
    [st EXCEPT !.trapL = SelectSeq(st.trapL, LAMBDA l : l[1] # d)]

\* "Handles ESC key."  Dependencies: [close].
EscEffect(d, c, st) == [st EXCEPT !.escL[d] = c.cl[d]]

EscCleanup(d, c, st) == [st EXCEPT !.escL[d] = NoClose]

\* "Handles click outside."  Dependencies: [close, closeOnClickOutside].
NoClickL == [root |-> <<0, 0>>, close |-> NoClose]

ClickEffect_IgnoringProp(d, c, st) ==
    IF c.rt[d] = 0 THEN st
    ELSE [st EXCEPT !.clickL[d] = [root |-> <<d, c.rt[d]>>, close |-> c.cl[d]]]

ClickEffect(d, c, st) ==
    IF ~page.closeOnClickOutside[d] \/ c.rt[d] = 0 THEN st
    ELSE [st EXCEPT !.clickL[d] = [root |-> <<d, c.rt[d]>>, close |-> c.cl[d]]]

ClickCleanup(d, c, st) == [st EXCEPT !.clickL[d] = NoClickL]

----------------------------------------------------------------------------
(* Body (src/src/parts/body.tsx): the component that renders the dialog    *)
(* root.  Props and attributes are records over BodyKeys; Undefined marks  *)
(* a prop that was not passed.                                             *)

Undefined == "undefined"
BodyKeys == {"aria-label", "aria-labelledby", "aria-modal", "role", "tabIndex"}

\* The context value a Body reads: NoContext outside every Dialog, and
\* the instance whose Provider encloses it otherwise.
NoContext == 0

\* No element was rendered.
NoAttrs == [k \in BodyKeys |-> "none"]

\* JSX attributes in source order: a later attribute replaces an earlier
\* one of the same name.
Attrs(earlier, later) ==
    [k \in BodyKeys |-> IF k \in DOMAIN later THEN later[k] ELSE earlier[k]]

\* useDialogContext(errorMessage): throws when the context value is null.
useDialogContext(ctx) == [threw |-> ctx = NoContext, value |-> ctx]

Body_WithoutContextCheck(props, ctx) ==
    [threw  |-> FALSE,
     logged |-> props["aria-label"] = Undefined /\ props["aria-labelledby"] = Undefined,
     el     |-> Attrs(props, [x \in {"aria-modal", "role", "tabIndex"} |->
                                IF x = "aria-modal" THEN "true"
                                ELSE IF x = "role" THEN "dialog" ELSE "-1"])]

Body_PropsLast(props, ctx) ==
    IF useDialogContext(ctx).threw
    THEN [threw |-> TRUE, logged |-> FALSE, el |-> NoAttrs]
    ELSE [threw  |-> FALSE,
          logged |-> props["aria-label"] = Undefined /\ props["aria-labelledby"] = Undefined,
          el     |-> [k \in BodyKeys |->
                        IF props[k] # Undefined THEN props[k]
                        ELSE IF k = "aria-modal" THEN "true"
                        ELSE IF k = "role" THEN "dialog"
                        ELSE IF k = "tabIndex" THEN "-1" ELSE Undefined]]

\* One render of Body: whether it threw, whether it logged the aria
\* diagnostic, and the attributes of the <div> it returned:
\* <div {...props} aria-modal='true' ref=... role='dialog' tabIndex={-1} />.
Body(props, ctx) ==
    IF useDialogContext(ctx).threw
    THEN [threw |-> TRUE, logged |-> FALSE, el |-> NoAttrs]
    ELSE [threw  |-> FALSE,
          logged |-> props["aria-label"] = Undefined /\ props["aria-labelledby"] = Undefined,
          el     |-> Attrs(props, [x \in {"aria-modal", "role", "tabIndex"} |->
                                     IF x = "aria-modal" THEN "true"
                                     ELSE IF x = "role" THEN "dialog" ELSE "-1"])]

----------------------------------------------------------------------------
(* One React commit.  S is the set of Dialog instances that re-render.     *)

\* Dialog instances re-rendered when the state behind d's `opened` changes:
\* every instance under the component owning that state.
Live == 1..page.n
Owner(d) == IF page.shared THEN Live ELSE {d}

\* Dependency checks of useEffect: on the first render every effect runs.
CloseChanged(d, c) == c.first \/ c.cl[d] # closeId[d]
OpenedChanged(d, c) == c.first \/ c.op[d] # opened[d]
\* [opened, placeFinalFocusAt]: the ref object is a new one on every render
\* of a caller that builds it while rendering.
FinalFocusDepsChanged(d, c) ==
    OpenedChanged(d, c) \/ (page.finalRef[d] /\ page.freshRef)

\* Every cleanup of instance d whose effect is about to re-run.
CleanupsOf(d, c, st) ==
    LET onFinalFocus(s) == IF FinalFocusDepsChanged(d, c) THEN FinalFocusCleanup(d, c, s) ELSE s
        onTrap(s)       == IF OpenedChanged(d, c) THEN TrapCleanup(d, c, s) ELSE s
        onEsc(s)        == IF CloseChanged(d, c) THEN EscCleanup(d, c, s) ELSE s
        onClick(s)      == IF CloseChanged(d, c) THEN ClickCleanup(d, c, s) ELSE s
    IN  onClick(onEsc(onTrap(onFinalFocus(st))))

\* Every effect of instance d whose dependencies changed, in declaration order.
EffectsOf(d, c, st) ==
    LET onStack(s)        == IF CloseChanged(d, c) THEN StackEffect(d, c, s) ELSE s
        onInitialFocus(s) == IF OpenedChanged(d, c) THEN InitialFocusEffect(d, c, s) ELSE s
        onFinalFocus(s)   == IF FinalFocusDepsChanged(d, c) THEN FinalFocusEffect(d, c, s) ELSE s
        onTrap(s)         == IF OpenedChanged(d, c) THEN TrapEffect(d, c, s) ELSE s
        onEsc(s)          == IF CloseChanged(d, c) THEN EscEffect(d, c, s) ELSE s
        onClick(s)        == IF CloseChanged(d, c) THEN ClickEffect(d, c, s) ELSE s
    IN  onClick(onEsc(onTrap(onFinalFocus(onInitialFocus(onStack(st))))))

\* React runs the cleanups of the whole tree, then the effects of the whole
\* tree, each pass visiting the instances in tree order (page.order).
RECURSIVE RunCleanups(_, _, _, _)
RunCleanups(i, S, c, st) ==
    IF i > Len(page.order) THEN st
    ELSE RunCleanups(i + 1, S, c,
            IF page.order[i] \in S THEN CleanupsOf(page.order[i], c, st) ELSE st)

RECURSIVE RunEffects(_, _, _, _)
RunEffects(i, S, c, st) ==
    IF i > Len(page.order) THEN st
    ELSE RunEffects(i + 1, S, c,
            IF page.order[i] \in S THEN EffectsOf(page.order[i], c, st) ELSE st)

\* The render: props of every instance, and the refs after the DOM mutation
\* (Body's ref callback sets dialogRef.current to the new node, or to null).
Render(S, newOpened) ==
    [first |-> commits = 0,
     op |-> newOpened,
     cl |-> [d \in Dialogs |->
                IF d \in S /\ (commits = 0 \/ ~page.stable[d])
                THEN FreshClose(d) ELSE closeId[d]],
     rt |-> [d \in Dialogs |->
                IF d \in S /\ opened[d] /\ ~newOpened[d] THEN 0
                ELSE IF d \in S /\ ~opened[d] /\ newOpened[d] THEN FreshMount(d)
                ELSE root[d]]]

\* createPortal(children, document.body): a newly mounted root is appended.
PortalsAfter(c) ==
    SelectSeq(portals, LAMBDA d : c.rt[d] # 0)
        \o SelectSeq(page.order, LAMBDA d : root[d] = 0 /\ c.rt[d] # 0)

\* The Body components this render renders: the Body of every re-rendered
\* instance that is open, and on the first render a Body outside every Dialog.
BodiesRendered(S, c) ==
    {d \in S : c.op[d]} \cup (IF page.stray /\ c.first THEN {NoContext} ELSE {})

\* The program's state after a commit with render c that left st behind; f is
\* document.activeElement when the commit started.
Committed(S, c, st, f) ==
    /\ opened' = c.op
    /\ closeId' = c.cl
    /\ root' = c.rt
    /\ portals' = PortalsAfter(c)
    /\ dialogStack' = st.stack
    /\ focus' = st.focus
    /\ finalT' = st.finalT
    /\ escL' = st.escL
    /\ clickL' = st.clickL
    /\ trapL' = st.trapL
    /\ logged' = st.logged
    /\ activeBeforeOpen' =
            [d \in Dialogs |-> IF ~c.op[d] THEN NoEl
                               ELSE IF ~opened[d] THEN f ELSE activeBeforeOpen[d]]
    /\ closedBefore' = [d \in Dialogs |-> closedBefore[d] \/ (opened[d] /\ ~c.op[d])]
    /\ rendered' = [x \in 0..NDialogs |->
                        IF x \in BodiesRendered(S, c) THEN Body(page.bodyProps, x).el
                        ELSE IF x \in Dialogs /\ c.rt[x] # 0 THEN rendered[x]
                        ELSE NoAttrs]
    /\ bodyLogged' = \E x \in BodiesRendered(S, c) : Body(page.bodyProps, x).logged
    /\ renderError' = FALSE
    /\ commits' = commits + 1

\* A render threw and no error boundary caught it: React reports the error
\* and unmounts the whole tree, which runs every cleanup and no effect.  The
\* module-level dialogStack is left as it is.
Unmounted(st) ==
    /\ opened' = [d \in Dialogs |-> FALSE]
    /\ closeId' = [d \in Dialogs |-> NoClose]
    /\ root' = [d \in Dialogs |-> 0]
    /\ portals' = <<>>
    /\ dialogStack' = st.stack
    /\ focus' = st.focus
    /\ finalT' = st.finalT
    /\ escL' = st.escL
    /\ clickL' = st.clickL
    /\ trapL' = st.trapL
    /\ logged' = FALSE
    /\ activeBeforeOpen' = [d \in Dialogs |-> NoEl]
    /\ closedBefore' = [d \in Dialogs |-> closedBefore[d] \/ opened[d]]
    /\ rendered' = [x \in 0..NDialogs |-> NoAttrs]
    /\ bodyLogged' = FALSE
    /\ renderError' = TRUE
    /\ commits' = commits + 1

\* The render with every instance unmounted.
UnmountRender ==
    [first |-> TRUE,
     op |-> [d \in Dialogs |-> FALSE],
     cl |-> [d \in Dialogs |-> NoClose],
     rt |-> [d \in Dialogs |-> 0]]

\* ReactDOM.createPortal(children, document.querySelector(container ?? 'body')!):
\* querySelector returns null when nothing matches, and createPortal throws
\* "Target container is not a DOM element." for a null container.
createPortalThrows(d, c) == c.op[d] /\ querySelectorContainer = NoEl

\* The DOM mutation (focus falls back to body when its element is removed),
\* then the cleanups and the effects.
CommitRender(S, c, f) ==
    IF \/ \E x \in BodiesRendered(S, c) : Body(page.bodyProps, x).threw
       \/ \E d \in S : createPortalThrows(d, c)
    THEN Unmounted(RunCleanups(1, Live, UnmountRender,
                  [stack  |-> dialogStack,
                   focus  |-> IF f[1] = 0 THEN f ELSE BodyEl,
                   finalT |-> finalT, escL |-> escL, clickL |-> clickL,
                   trapL  |-> trapL, logged |-> FALSE]))
    ELSE Committed(S, c,
              RunEffects(1, S, c, RunCleanups(1, S, c,
                  [stack  |-> dialogStack,
                   focus  |-> IF Attached(c.rt, f) THEN f ELSE BodyEl,
                   finalT |-> finalT, escL |-> escL, clickL |-> clickL,
                   trapL  |-> trapL, logged |-> FALSE])),
              f)

\* The commit as a whole.
Commit(S, newOpened, f) == CommitRender(S, Render(S, newOpened), f)

\* The callers' close callbacks: `() => setOpened(false)`.  The instances
\* whose state changed re-render with their owners; none changed, no commit.
AfterCalls(n, f) ==
    LET newOpened == [d \in Dialogs |->
                        opened[d] /\ IF page.sameClose THEN \A x \in Dialogs : n[x] = 0
                                                        ELSE n[d] = 0]
        changed   == {d \in Dialogs : newOpened[d] # opened[d]}
    IN  IF changed = {}
        THEN /\ focus' = f
             /\ logged' = FALSE
             /\ bodyLogged' = FALSE
             /\ UNCHANGED <<opened, closeId, root, portals, dialogStack, finalT, escL,
                            clickL, trapL, activeBeforeOpen, closedBefore, rendered,
                            renderError, commits>>
        ELSE Commit(UNION {Owner(d) : d \in changed}, newOpened, f)

NoCalls == [d \in Dialogs |-> 0]

\* No keydown was default-prevented by the last event.
NoTab == <<FALSE, NoEl>>

----------------------------------------------------------------------------
(* Keyboard: trapFocus and the browser's default action for Tab.           *)

\* The root element of the mount <<d, m>>.
RootEl(l) == <<l[1], l[2], 0>>

trapFocus_RootOnly(l, shift, s) ==
    LET focusableElements ==
            SelectSeq(getAllDescendantElements(l[1], l[2]), isKeyboardFocusable)
        target == IF focusableElements = <<>> THEN NoEl
                  ELSE IF shift THEN focusableElements[Len(focusableElements)]
                  ELSE focusableElements[1]
    IN  IF s.focus = RootEl(l)
        THEN IF target = NoEl
             THEN [s EXCEPT !.threw = TRUE]
             ELSE [s EXCEPT !.focus = FocusCall(root, s.focus, target),
                            !.prevented = TRUE]
        ELSE s

trapFocus_EdgesOnly(l, shift, s) ==
    LET focusableElements ==
            SelectSeq(getAllDescendantElements(l[1], l[2]), isKeyboardFocusable)
        target == IF focusableElements = <<>> THEN NoEl
                  ELSE IF shift THEN focusableElements[Len(focusableElements)]
                  ELSE focusableElements[1]
        edge   == IF focusableElements = <<>> THEN NoEl
                  ELSE IF shift THEN focusableElements[1]
                  ELSE focusableElements[Len(focusableElements)]
    IN  IF s.focus = edge
        THEN [s EXCEPT !.focus = FocusCall(root, s.focus, target),
                       !.prevented = TRUE]
        ELSE s

\* One trapFocus listener handling a Tab keydown; s = [focus, prevented, threw].
\* focusableElements[0] of an empty array is undefined, and calling focus()
\* on it raises a TypeError that ends this listener only.
trapFocus(l, shift, s) ==
    LET focusableElements ==
            SelectSeq(getAllDescendantElements(l[1], l[2]), isKeyboardFocusable)
        firstFocusableElement ==
            IF focusableElements = <<>> THEN NoEl ELSE focusableElements[1]
        lastFocusableElement ==
            IF focusableElements = <<>> THEN NoEl
            ELSE focusableElements[Len(focusableElements)]
        atEdge == IF shift THEN s.focus = firstFocusableElement
                           ELSE s.focus = lastFocusableElement
        target == IF shift THEN lastFocusableElement ELSE firstFocusableElement
    IN  IF atEdge \/ s.focus = RootEl(l)
        THEN IF target = NoEl
             THEN [s EXCEPT !.threw = TRUE]
             ELSE [s EXCEPT !.focus = FocusCall(root, s.focus, target),
                            !.prevented = TRUE]
        ELSE s

trapFocusOnKey_AnyKey(l, key, shift, s) == trapFocus(l, shift, s)

\* `if (e.key !== 'Tab') return`: the listener receives every keydown.
trapFocusOnKey(l, key, shift, s) ==
    IF key # "Tab" THEN s ELSE trapFocus(l, shift, s)

\* A keydown reaches the trapFocus listener of every open dialog, in the
\* order in which they were added.
RECURSIVE RunTraps(_, _, _, _)
RunTraps(i, key, shift, s) ==
    IF i > Len(trapL) THEN s
    ELSE RunTraps(i + 1, key, shift, trapFocusOnKey(trapL[i], key, shift, s))

NoTrap == [focus |-> focus, prevented |-> FALSE, threw |-> FALSE]

\* Every element of the document in document order: the page's own elements,
\* then the portals in the order they were appended to document.body.
RECURSIVE PortalElements(_)
PortalElements(i) ==
    IF i > Len(portals) THEN <<>>
    ELSE LET d == portals[i]
         IN  <<<<d, root[d], 0>>>> \o getAllDescendantElements(d, root[d])
                \o PortalElements(i + 1)

\* The page's own buttons; the "Next" button exists on the pages that pass
\* a ref to it as placeFinalFocusAt.
PageButtons ==
    IF \E d \in Dialogs : page.finalRef[d] THEN <<TriggerEl, NextEl>> ELSE <<TriggerEl>>

DocumentOrder == PageButtons \o PortalElements(1)

\* The elements the browser's sequential navigation stops at: those that
\* can take focus and have a tab index of 0 or more.
Tabbable(e) == CanFocus(KindOf(e)) /\ TabIndex(KindOf(e)) >= 0

\* The browser's sequential focus navigation from element f: the next
\* (previous) tabbable element in document order, wrapping around.
DefaultTab(f, shift) ==
    LET doc  == DocumentOrder
        here == IF \E i \in DOMAIN doc : doc[i] = f
                THEN CHOOSE i \in DOMAIN doc : doc[i] = f
                ELSE IF shift THEN Len(doc) + 1 ELSE 0
        tabbable == {i \in DOMAIN doc : Tabbable(doc[i])}
        after    == {i \in tabbable : i > here}
        before   == {i \in tabbable : i < here}
    IN  IF tabbable = {} THEN f
        ELSE IF shift
             THEN (IF before # {} THEN doc[-Min({-i : i \in before})]
                   ELSE doc[-Min({-i : i \in tabbable})])
             ELSE (IF after # {} THEN doc[Min(after)] ELSE doc[Min(tabbable)])

----------------------------------------------------------------------------
(* Pages: what the caller renders.                                         *)

Perms(n) == {p \in [1..n -> 1..n] : \A a, b \in 1..n : a # b => p[a] # p[b]}

\* The Dialog instances in tree order; the order is immaterial when every
\* commit renders a single instance.
PageOrders(n, shared) ==
    IF shared THEN {[i \in 1..n |-> p[i]] : p \in Perms(n)} ELSE {[i \in 1..n |-> i]}

AllTrue  == [d \in Dialogs |-> TRUE]
AllFalse == [d \in Dialogs |-> FALSE]

\* The optional props: the defaults, or closeOnClickOutside={false} on one
\* instance, or placeFinalFocusAt on one instance (instance 1: the pages range
\* over every tree order, so which instance it is does not matter).
DefaultProps  == [click |-> AllTrue, final |-> AllFalse]
ClickOffProps == [click |-> [AllTrue EXCEPT ![1] = FALSE], final |-> AllFalse]
FinalRefProps == [click |-> AllTrue, final |-> [AllFalse EXCEPT ![1] = TRUE]]

\* `opened` in the first render: every dialog closed, or one of them open
\* (instance 1: the pages are symmetric in the instances otherwise).
InitiallyOpened == {AllFalse, [AllFalse EXCEPT ![1] = TRUE]}

\* Body's props in the test suite's pages: <Body aria-label='A dialog'>.
LabelledProps == [k \in BodyKeys |-> IF k = "aria-label" THEN "A dialog" ELSE Undefined]

MkPage(n, shared, stable, order, props, initOpen, content) ==
    [n |-> n,                                   \* Dialog instances on the page
     shared |-> shared,                         \* one component owns all state
     stable |-> stable,                         \* `close` keeps its identity
     order |-> order,                           \* instances in tree order
     closeOnClickOutside |-> props.click,
     finalRef |-> props.final,                  \* placeFinalFocusAt is given
     initOpen |-> initOpen,
     content |-> content,
     bodyProps |-> LabelledProps,               \* the props passed to Body
     stray |-> FALSE,                           \* a Body outside every Dialog
     sameClose |-> FALSE,                       \* one `close` for all instances
     freshRef |-> FALSE,                        \* a new ref object on every render
     selector |-> FALSE]                        \* `container` is given (a selector)

\* Pages of nested dialogs: every way the callers can own the state and
\* build `close`, each dialog holding one button.
NestedPagesWith(props, stables) ==
    UNION {{MkPage(NDialogs, shared, stable, order, props, initOpen,
                   [d \in Dialogs |-> <<Button>>]) :
                stable \in stables,
                order \in PageOrders(NDialogs, shared),
                initOpen \in InitiallyOpened} :
           shared \in BOOLEAN}

\* With the default props, each caller builds `close` in its own way; with
\* an optional prop set, all callers build it in the same way.
NestedPages   == NestedPagesWith(DefaultProps, [Dialogs -> BOOLEAN])
ClickOffPages == NestedPagesWith(ClickOffProps, {AllFalse, AllTrue})
FinalRefPages == NestedPagesWith(FinalRefProps, {AllFalse, AllTrue})

\* What a dialog can hold: a button, static text, static text with
\* tabindex="-1"; and data-place-focus on a button, on static text with
\* tabindex="-1", on a disabled button and on a hidden element with
\* tabindex="-1".
Marked(k) == [k EXCEPT !.mark = TRUE]
StaticT   == [Static EXCEPT !.tab = "-1"]
Disabled  == [Button EXCEPT !.dis = TRUE]
HiddenT == [StaticT EXCEPT !.dis = TRUE]

ContentKinds ==
    {Button, Static, StaticT,
     Marked(Button), Marked(StaticT), Marked(Disabled), Marked(HiddenT)}

Contents == SeqsUpTo(ContentKinds, MaxLen)

\* Pages of one dialog with every content.
ContentPages ==
    {MkPage(1, TRUE, AllFalse, [i \in 1..1 |-> 1],
            DefaultProps, initOpen, [d \in Dialogs |-> c]) :
        c \in Contents, initOpen \in InitiallyOpened}

\* Props a caller may pass to Body: a label or none, and values for the
\* attributes that Body sets itself.
PassedValue ==
    [k \in BodyKeys |->
        IF k = "aria-label" THEN "A dialog"
        ELSE IF k = "aria-labelledby" THEN "dialog-label"
        ELSE IF k = "aria-modal" THEN "false"
        ELSE IF k = "role" THEN "alert" ELSE "0"]

BodyPropsChoices ==
    {[k \in BodyKeys |-> IF k \in passed THEN PassedValue[k] ELSE Undefined] :
        passed \in SUBSET BodyKeys}

\* Pages of one dialog, with or without a focusable element, whose Body gets
\* every choice of props and whose caller builds `close` in either way; and
\* the same pages with one more Body rendered outside every Dialog.
BodyPages ==
    {[MkPage(1, TRUE, stable, [i \in 1..1 |-> 1], DefaultProps, initOpen,
             [d \in Dialogs |-> c])
        EXCEPT !.bodyProps = props, !.stray = stray] :
        stable \in {AllFalse, AllTrue},
        c \in {<<Button>>, <<Static>>},
        initOpen \in InitiallyOpened,
        props \in BodyPropsChoices,
        stray \in BOOLEAN}

\* The pages with placeFinalFocusAt whose callers pass
\* `() => setOpened(false)` as close.
RefPages == NestedPagesWith(FinalRefProps, {AllFalse})

\* Pages of nested dialogs under one owner that passes one and the same
\* function, which closes every dialog, as `close` to each instance; and
\* the same pages with a function of its own for each instance.
SameClosePages ==
    {[p EXCEPT !.sameClose = same] :
        p \in {q \in NestedPagesWith(DefaultProps, {AllFalse, AllTrue}) : q.shared},
        same \in BOOLEAN}

\* The pages with placeFinalFocusAt whose callers build the ref object while
\* rendering (createRef() in a function component), so that every render
\* passes a different object referring to the same button.
FreshRefPages == {[p EXCEPT !.freshRef = TRUE] : p \in RefPages}

\* What isKeyboardFocusable can be asked about inside a dialog: besides a
\* button, static text (with or without tabindex="-1") and a disabled
\* button, an <svg tabindex="0"> and a button inside a hidden ancestor.
SvgT        == [Static EXCEPT !.tab = "0", !.html = FALSE]
UnderHidden == [Button EXCEPT !.anc = TRUE]
FocusableKinds == {Button, Static, StaticT, Disabled, SvgT, UnderHidden}

\* Pages of one dialog holding such elements.
FocusablePages ==
    {MkPage(1, TRUE, AllFalse, [i \in 1..1 |-> 1],
            DefaultProps, initOpen, [d \in Dialogs |-> c]) :
        c \in SeqsUpTo(FocusableKinds, MaxLen), initOpen \in InitiallyOpened}

\* Pages of nested dialogs, each given container='#mount-target'.
ContainerPages ==
    {[p EXCEPT !.selector = TRUE] : p \in NestedPagesWith(DefaultProps, {AllFalse})}

Pages ==
    NestedPages \cup ClickOffPages \cup FinalRefPages \cup ContentPages \cup BodyPages
        \cup RefPages \cup SameClosePages \cup FreshRefPages \cup ContainerPages
        \cup FocusablePages

----------------------------------------------------------------------------
(* The module is loaded (dialogStack is an empty Map) and nothing has       *)
(* rendered yet.                                                           *)

InitOn(P) ==
    /\ page \in P
    /\ opened = [d \in Dialogs |-> FALSE]
    /\ closeId = [d \in Dialogs |-> NoClose]
    /\ root = [d \in Dialogs |-> 0]
    /\ portals = <<>>
    /\ dialogStack = <<>>
    /\ focus = BodyEl
    /\ finalT = [d \in Dialogs |-> NoEl]
    /\ escL = [d \in Dialogs |-> NoClose]
    /\ clickL = [d \in Dialogs |-> NoClickL]
    /\ trapL = <<>>
    /\ calls = NoCalls
    /\ prevented = FALSE
    /\ logged = FALSE
    /\ threw = FALSE
    /\ tabbed = NoTab
    /\ activeBeforeOpen = [d \in Dialogs |-> NoEl]
    /\ closedBefore = [d \in Dialogs |-> FALSE]
    /\ rendered = [x \in 0..NDialogs |-> NoAttrs]
    /\ bodyLogged = FALSE
    /\ renderError = FALSE
    /\ refCurrent = IF \E d \in Dialogs : page.finalRef[d] THEN NextEl ELSE NoEl
    /\ mountTarget \in (IF page.selector THEN BOOLEAN ELSE {FALSE})
    /\ commits = 0

Init == InitOn(Pages)

\* The first render of the page: every Dialog instance mounts, closed or
\* open, and each of its effects runs.
Mount ==
    /\ commits = 0
    /\ Commit(Live, page.initOpen, focus)
    /\ calls' = NoCalls /\ prevented' = FALSE /\ threw' = FALSE
    /\ tabbed' = NoTab
    /\ UNCHANGED <<page, refCurrent, mountTarget>>

\* The caller sets the state behind d's `opened` prop to true.
Open(d) ==
    /\ commits > 0 /\ ~renderError
    /\ ~opened[d]
    /\ commits < MaxCommits
    /\ Commit(Owner(d), [opened EXCEPT ![d] = TRUE], focus)
    /\ calls' = NoCalls /\ prevented' = FALSE /\ threw' = FALSE
    /\ tabbed' = NoTab
    /\ UNCHANGED <<page, refCurrent, mountTarget>>

\* The caller sets it to false (a close button's onClick, for instance).
Close(d) ==
    /\ commits > 0 /\ ~renderError
    /\ opened[d]
    /\ Commit(Owner(d), [opened EXCEPT ![d] = FALSE], focus)
    /\ calls' = NoCalls /\ prevented' = FALSE /\ threw' = FALSE
    /\ tabbed' = NoTab
    /\ UNCHANGED <<page, refCurrent, mountTarget>>

\* The owner of d renders again with nothing changed.
Rerender(d) ==
    /\ commits > 0 /\ ~renderError
    /\ commits < MaxCommits
    /\ Commit(Owner(d), opened, focus)
    /\ calls' = NoCalls /\ prevented' = FALSE /\ threw' = FALSE
    /\ tabbed' = NoTab
    /\ UNCHANGED <<page, refCurrent, mountTarget>>

EscapeCalls_WithoutIdentityCheck ==
    [d \in Dialogs |-> IF escL[d] # NoClose /\ opened[d] THEN 1 ELSE 0]

\* An Escape keydown reaches the closeDialog listener of every instance.
EscapeCalls ==
    [d \in Dialogs |->
        IF escL[d] # NoClose /\ uppermostDialogCloseCallback(dialogStack) = escL[d]
        THEN 1 ELSE 0]

Escape ==
    /\ commits > 0
    /\ calls' = EscapeCalls
    /\ AfterCalls(EscapeCalls, RunTraps(1, "Escape", FALSE, NoTrap).focus)
    /\ prevented' = RunTraps(1, "Escape", FALSE, NoTrap).prevented
    /\ threw' = RunTraps(1, "Escape", FALSE, NoTrap).threw
    /\ tabbed' = NoTab
    /\ UNCHANGED <<page, refCurrent, mountTarget>>

\* What a click can hit: the page outside the dialogs (body, backdrops), the
\* page's buttons, and the root and the enabled descendants of a mounted dialog.
ClickTargets ==
    {BodyEl} \cup {PageButtons[i] : i \in DOMAIN PageButtons}
        \cup {e \in UNION {{<<d, root[d], i>> : i \in 0..Len(page.content[d])} :
                                d \in {x \in Dialogs : root[x] # 0}} :
                ~KindOf(e).dis /\ ~KindOf(e).anc}

\* The click moves focus to the target or to its nearest focusable ancestor.
FocusOnClick(t) ==
    IF CanFocus(KindOf(t)) THEN t
    ELSE IF t[1] # 0 THEN <<t[1], t[2], 0>> ELSE BodyEl

\* A click reaches, in the capture phase, the closeDialog listener of every
\* instance that installed one.
ClickCalls(t) ==
    [d \in Dialogs |->
        IF /\ clickL[d] # NoClickL
           /\ ~Contains(clickL[d].root, t)
           /\ uppermostDialogCloseCallback(dialogStack) = clickL[d].close
        THEN 1 ELSE 0]

Click(t) ==
    /\ commits > 0
    /\ calls' = ClickCalls(t)
    /\ AfterCalls(ClickCalls(t), FocusOnClick(t))
    /\ prevented' = FALSE /\ threw' = FALSE
    /\ tabbed' = NoTab
    /\ UNCHANGED <<page, refCurrent, mountTarget>>

\* A Tab keydown: every trapFocus listener, then the default action unless
\* one of them called preventDefault().
Tab(shift) ==
    LET s == RunTraps(1, "Tab", shift, NoTrap)
    IN  /\ commits > 0
        /\ focus' = IF s.prevented THEN s.focus ELSE DefaultTab(s.focus, shift)
        /\ prevented' = s.prevented
        /\ threw' = s.threw
        /\ tabbed' = IF s.prevented THEN <<shift, focus>> ELSE NoTab
        /\ calls' = NoCalls
        /\ logged' = FALSE
        /\ bodyLogged' = FALSE
        /\ UNCHANGED <<page, opened, closeId, root, portals, dialogStack, finalT,
                       escL, clickL, trapL, activeBeforeOpen, closedBefore, rendered,
                       renderError, refCurrent, mountTarget, commits>>

Next ==
    \/ Mount
    \/ \E d \in Live : Open(d)
    \/ \E d \in Live : Close(d)
    \/ \E d \in Live : Rerender(d)
    \/ Escape
    \/ \E t \in ClickTargets : Click(t)
    \/ \E shift \in BOOLEAN : Tab(shift)

Spec == Init /\ [][Next]_vars

\* The pages of one dialog with every content.
SpecContent == InitOn(ContentPages) /\ [][Next]_vars

\* The pages of nested dialogs with every prop at its default.
SpecNested == InitOn(NestedPages) /\ [][Next]_vars

\* The pages of nested dialogs, one of them with closeOnClickOutside={false}.
SpecClickOff == InitOn(ClickOffPages) /\ [][Next]_vars

\* The pages of nested dialogs, one of them with placeFinalFocusAt.
SpecFinalRef == InitOn(FinalRefPages) /\ [][Next]_vars

\* The pages of one dialog with every choice of props for Body.
SpecBody == InitOn(BodyPages) /\ [][Next]_vars

\* The caller's ref is a mutable object: the caller may point it at another
\* button of the page (an enabled or a disabled one), or clear it, at any
\* time after the first render.
RefTargets == {NextEl, TriggerEl, DisabledEl, NoEl}

SetRef(e) ==
    /\ commits > 0
    /\ \E d \in Live : page.finalRef[d]
    /\ e # refCurrent
    /\ refCurrent' = e
    /\ UNCHANGED <<page, opened, closeId, root, portals, dialogStack, focus,
                   finalT, escL, clickL, trapL, calls, prevented, logged, threw,
                   tabbed, activeBeforeOpen, closedBefore, rendered, bodyLogged,
                   renderError, mountTarget, commits>>

NextRef ==
    \/ Next
    \/ \E e \in RefTargets : SetRef(e)

\* The pages of nested dialogs, one of them with placeFinalFocusAt, whose
\* callers reassign the ref.
SpecRef == InitOn(RefPages) /\ [][NextRef]_vars

\* The pages of nested dialogs whose owner passes one `close` to all.
SpecSameClose == InitOn(SameClosePages) /\ [][Next]_vars

\* The pages of nested dialogs, one of them with placeFinalFocusAt, whose
\* callers pass a different ref object on every render.
SpecFreshRef == InitOn(FreshRefPages) /\ [][Next]_vars

\* The pages of one dialog holding every kind of element that
\* isKeyboardFocusable tells apart.
SpecFocusable == InitOn(FocusablePages) /\ [][Next]_vars

\* The page gets the element that the container selector matches.
AppendMountTarget ==
    /\ page.selector /\ ~mountTarget
    /\ mountTarget' = TRUE
    /\ UNCHANGED <<page, opened, closeId, root, portals, dialogStack, focus,
                   finalT, escL, clickL, trapL, calls, prevented, logged, threw,
                   tabbed, activeBeforeOpen, closedBefore, rendered, bodyLogged,
                   renderError, refCurrent, commits>>

NextContainer ==
    \/ Next
    \/ AppendMountTarget

\* The pages of nested dialogs rendered into a container given by selector,
\* which is in the document from the start or is appended later.
SpecContainer == InitOn(ContainerPages) /\ [][NextContainer]_vars

----------------------------------------------------------------------------
(* Vocabulary of the properties.                                           *)

\* The open dialogs, oldest first: a root is appended to document.body when
\* its dialog opens and removed when it closes.
StillOpen == portals

MostRecentlyOpened == portals[Len(portals)]

\* The last event invoked the close callback of d once and no other.
OnlyCallTo(d) == [x \in Dialogs |-> IF x = d THEN 1 ELSE 0]

\* The root element of the open dialog d.
RootOf(d) == <<d, root[d], 0>>

InsideRoot(d, e) == root[d] # 0 /\ e[1] = d /\ e[2] = root[d]

\* C1: a single Escape keydown invokes the close callback of exactly the
\* most recently opened dialog that is still open, and of no other dialog.
C1_EscapeClosesMostRecentlyOpened ==
    [][(Escape /\ StillOpen # <<>>) => calls' = OnlyCallTo(MostRecentlyOpened)]_vars

\* C2: a click outside the root of the most recently opened still-open
\* dialog (which has outside-click dismissal enabled) invokes only that
\* dialog's close callback; a click inside that root invokes none.
C2_ClickOutsideClosesMostRecentlyOpened ==
    [][\A t \in ClickTargets :
          (Click(t) /\ StillOpen # <<>>) =>
              IF InsideRoot(MostRecentlyOpened, t)
              THEN calls' = NoCalls
              ELSE page.closeOnClickOutside[MostRecentlyOpened]
                      => calls' = OnlyCallTo(MostRecentlyOpened)]_vars

----------------------------------------------------------------------------
(* closeOnClickOutside.                                                    *)

\* The last entry of the registry, and the open dialog it belongs to.
TopEntry == dialogStack[Len(dialogStack)]
IsTopmost(d) ==
    dialogStack # <<>> /\ root[d] # 0 /\ TopEntry.root = <<d, root[d]>>

\* A click on t is due to dismiss instance d: d has closeOnClickOutside,
\* an Escape keydown would dismiss d, and the topmost root does not contain t.
DueOnClick(d, t) ==
    /\ page.closeOnClickOutside[d]
    /\ EscapeCalls[d] = 1
    /\ ~Contains(TopEntry.root, t)

\* C3: no click invokes the close callback of an instance rendered with
\* closeOnClickOutside={false}; an Escape keydown invokes it whenever its
\* root is the last entry of the registry, whatever its closeOnClickOutside;
\* and a click dismisses exactly the instances that an Escape keydown would
\* dismiss, that have closeOnClickOutside themselves and whose registered
\* root does not contain the target: no other instance's prop matters.
C3_ClickOutsideSwitchedOff ==
    [][\A d \in Live :
          /\ \A t \in ClickTargets :
                ~(~page.closeOnClickOutside[d] /\ calls'[d] # 0 /\ Click(t))
          /\ (IsTopmost(d) /\ Escape) => calls'[d] = 1
          /\ \A t \in ClickTargets :
                ~((calls'[d] = 1) # DueOnClick(d, t) /\ Click(t))]_vars

\* An Escape keydown has just dismissed an instance that has outside-click
\* dismissal switched off, above another open dialog that listens for clicks.
C3_Witness ==
    \E d \in Live :
        /\ ~page.closeOnClickOutside[d]
        /\ calls = OnlyCallTo(d)
        /\ \E e \in Live \ {d} : opened[e] /\ clickL[e] # NoClickL

----------------------------------------------------------------------------
(* The focus trap.                                                         *)

\* The keyboard-focusable descendants of the open dialog d, in document order.
Focusables(d) ==
    SelectSeq(getAllDescendantElements(d, root[d]), isKeyboardFocusable)
FirstFocusable(d) == Focusables(d)[1]
LastFocusable(d) == Focusables(d)[Len(Focusables(d))]

IsOpen(d) == opened[d] /\ root[d] # 0

C8_FocusNeverLeavesOnTab ==
    [][\A d \in Live, shift \in BOOLEAN :
          (Tab(shift) /\ IsOpen(d) /\ InsideRoot(d, focus))
              => InsideRoot(d, focus')]_vars

----------------------------------------------------------------------------
(* Focus placement when a dialog opens and when it closes.                 *)

\* The step opens (closes) dialog d.
Opens(d) == ~opened[d] /\ opened'[d]
Closes(d) == opened[d] /\ ~opened'[d]

\* The descendants of the root that d mounts in this step, and the indices
\* of the keyboard-focusable ones.
NewDescendants(d) == getAllDescendantElements(d, root'[d])
NewFocusable(d) ==
    {i \in DOMAIN NewDescendants(d) : isKeyboardFocusable(NewDescendants(d)[i])}
NewMarked(d) ==
    {i \in DOMAIN NewDescendants(d) : KindOf(NewDescendants(d)[i]).mark}

Refocusable(e) == isKeyboardFocusable(e) /\ Attached(root', e)

\* C6: when a dialog closes, the element placeFinalFocusAt refers to
\* receives focus if one was configured (it is keyboard-focusable); otherwise
\* the element that held focus immediately before the dialog opened does
\* (read in the claim's favour: if it can still take keyboard focus).
C6_FinalFocus ==
    [][\A d \in Live :
          Closes(d) =>
              IF page.finalRef[d]
              THEN focus' = NextEl
              ELSE Refocusable(activeBeforeOpen[d])
                      => focus' = activeBeforeOpen[d]]_vars

\* Dialog d was opened as the scenario of nested dialogs opens it: the
\* first dialog from the page's trigger button, a further dialog from a
\* control inside the dialog opened just before it.
Below(d) == portals[(CHOOSE i \in DOMAIN portals : portals[i] = d) - 1]
OpenedNested(d) ==
    IF portals[1] = d
    THEN activeBeforeOpen[d] = TriggerEl
    ELSE /\ InsideRoot(Below(d), activeBeforeOpen[d])
         /\ isKeyboardFocusable(activeBeforeOpen[d])

\* C7: when the most recently opened dialog of a nest closes, focus is on
\* the control (inside the dialog below, or the page's trigger) from which
\* it was opened, whatever the order of the Dialog components in the tree.
C7_NestedFocusReturn ==
    [][\A d \in Live :
          (/\ Closes(d)
           /\ d = MostRecentlyOpened
           /\ ~page.finalRef[d]
           /\ OpenedNested(d))
          => focus' = activeBeforeOpen[d]]_vars

\* C10: when a dialog that was open before opens again, its new root is the
\* last entry of the registry, the registry holds no entry for a root of an
\* earlier mount of it, and the entry records the element that was focused
\* immediately before this open.
C10_ReopenRegistersAfresh ==
    [][\A d \in Live :
          (Opens(d) /\ closedBefore[d]) =>
              /\ dialogStack' # <<>>
              /\ dialogStack'[Len(dialogStack')].root = <<d, root'[d]>>
              /\ \A i \in DOMAIN dialogStack' :
                    dialogStack'[i].root[1] = d => dialogStack'[i].root[2] = root'[d]
              /\ dialogStack'[Len(dialogStack')].prior = focus]_vars


----------------------------------------------------------------------------
(* The explicit initial focus target.                                      *)

\* A visible element that is not natively interactive and carries
\* tabindex="-1".
StaticWithTabindexMinus1(e) ==
    e # NoEl /\ ~KindOf(e).inter /\ KindOf(e).tab = "-1" /\ ~KindOf(e).dis

\* C11: when a dialog opens and the first element carrying data-place-focus
\* is a non-interactive element with tabindex="-1", that element receives
\* the initial focus, also when keyboard-focusable descendants precede it.
C11_MarkedStaticTakesInitialFocus ==
    [][\A d \in Live :
          (/\ Opens(d)
           /\ NewMarked(d) # {}
           /\ StaticWithTabindexMinus1(NewDescendants(d)[Min(NewMarked(d))]))
          => /\ focus' = NewDescendants(d)[Min(NewMarked(d))]
             /\ ~isKeyboardFocusable(focus')
             /\ ~logged']_vars

\* A dialog has just opened with focus on its marked static element, which
\* a keyboard-focusable descendant precedes in document order.
C11_Witness ==
    \E d \in Live :
        /\ IsOpen(d) /\ calls = NoCalls /\ tabbed = NoTab
        /\ activeBeforeOpen[d] # focus
        /\ StaticWithTabindexMinus1(focus)
        /\ focus = querySelectorPlaceFocus(d, root[d])
        /\ \E i \in 1..(focus[3] - 1) : isKeyboardFocusable(<<d, root[d], i>>)


----------------------------------------------------------------------------
(* Body: the diagnostics, the context and the attributes of the root.      *)

\* Instance d has an entry in the registry for its mounted root.
Registered(d) ==
    \E i \in DOMAIN dialogStack : dialogStack[i].root = <<d, root[d]>>

\* The Escape, outside-click and focus-trap listeners of d are installed;
\* the last two on d's mounted root.
ListenersInstalled(d) ==
    /\ escL[d] # NoClose
    /\ clickL[d] # NoClickL /\ clickL[d].root = <<d, root[d]>>
    /\ \E i \in DOMAIN trapL : trapL[i] = <<d, root[d]>>

\* C12: when a dialog opens and one of the two diagnostics is logged (no
\* aria-label or aria-labelledby on the root; no focusable element), no
\* error is thrown, the dialog is rendered and registered, and its Escape,
\* outside-click and focus-trap listeners are installed.
C12_DiagnosticsAreAdvisory ==
    [][\A d \in Live :
          (Opens(d) /\ (logged' \/ bodyLogged'))
          => /\ ~renderError'
             /\ root'[d] # 0 /\ rendered'[d] # NoAttrs
             /\ Registered(d)' /\ ListenersInstalled(d)']_vars

\* C13: a Body rendered outside every Dialog makes the render throw; no
\* root is rendered for it, tracked or not.
C13_BodyOutsideDialogThrows ==
    (page.stray /\ commits > 0) => (renderError /\ rendered[NoContext] = NoAttrs)

\* The page with a Body outside every Dialog was mounted and React reported
\* the error.
C13_Witness ==
    page.stray /\ commits = 1 /\ renderError /\ portals = <<>>

\* C14: every rendered dialog root carries role='dialog', aria-modal='true'
\* and tabindex -1 whatever props Body got, and every mounted root is one
\* that Body rendered.
C14_RootAttributes ==
    /\ \A x \in 0..NDialogs :
          rendered[x] # NoAttrs
          => /\ rendered[x]["role"] = "dialog"
             /\ rendered[x]["aria-modal"] = "true"
             /\ rendered[x]["tabIndex"] = "-1"
    /\ \A d \in Dialogs : root[d] # 0 => rendered[d] # NoAttrs

\* A dialog is mounted whose Body was passed role, aria-modal and tabIndex.
C14_Witness ==
    \E d \in Live :
        /\ root[d] # 0 /\ rendered[d] # NoAttrs
        /\ page.bodyProps["role"] = "alert"
        /\ page.bodyProps["aria-modal"] = "false"
        /\ page.bodyProps["tabIndex"] = "0"
        /\ rendered[d]["aria-label"] = page.bodyProps["aria-label"]


----------------------------------------------------------------------------
(* The order of the registry.                                              *)

\* Where the entry for the root `key` is in a stack; 0 when it has none.
IndexOf(stack, key) ==
    IF \E i \in DOMAIN stack : stack[i].root = key
    THEN CHOOSE i \in DOMAIN stack : stack[i].root = key
    ELSE 0

\* The stack effect of d runs in this step with its root mounted: `close`
\* has a new identity (or d renders for the first time).
Registers(d) == closeId'[d] # closeId[d] /\ root'[d] # 0

\* ... and the root was mounted before the step: d registers it again.
Reregisters(d) == Registers(d) /\ root[d] # 0 /\ root'[d] = root[d]

\* Of the instances that register in this step, the one whose effect runs last.
RegistersLast(d) ==
    /\ Registers(d)
    /\ \A i, j \in DOMAIN page.order :
          (page.order[i] = d /\ Registers(page.order[j])) => j <= i

\* C15 as stated: whenever a mounted dialog registers again it becomes the
\* last entry of the registry (of several that register in one commit, the
\* one that registers last does).
C15_ReregistrationMovesToTop ==
    [][\A d \in Live :
          (Reregisters(d) /\ RegistersLast(d))
          => /\ dialogStack' # <<>>
             /\ dialogStack'[Len(dialogStack')].root = <<d, root'[d]>>]_vars

\* C15, amended: a root that registers again gets the new close callback but
\* keeps its place: the entries that survive a step keep their relative
\* order, so the last entry is the root that was inserted last, not the one
\* that registered last.  Escape and outside-click invoke the close callback
\* of no instance but the one the last entry belongs to.
C15_ReregistrationKeepsPlace ==
    [][/\ \A d \in Live :
             (Reregisters(d) /\ IndexOf(dialogStack, <<d, root[d]>>) # 0)
             => dialogStack'[IndexOf(dialogStack', <<d, root[d]>>)].close = closeId'[d]
       /\ \A i, j \in DOMAIN dialogStack :
             (/\ i < j
              /\ IndexOf(dialogStack', dialogStack[i].root) # 0
              /\ IndexOf(dialogStack', dialogStack[j].root) # 0)
             => IndexOf(dialogStack', dialogStack[i].root)
                    < IndexOf(dialogStack', dialogStack[j].root)
       /\ \A d \in Live :
             calls'[d] # 0 => dialogStack # <<>> /\ TopEntry.root[1] = d]_vars

\* A commit has just re-registered an open dialog that was mounted earlier,
\* and the last entry of the registry is still another open dialog's.
C15_Witness ==
    \E d \in Live :
        /\ IsOpen(d) /\ root[d] < commits /\ closeId[d] = <<d, commits>>
        /\ IndexOf(dialogStack, <<d, root[d]>>) # 0
        /\ dialogStack[IndexOf(dialogStack, <<d, root[d]>>)].close = closeId[d]
        /\ \E e \in Live \ {d} : IsOpen(e) /\ IsTopmost(e)


\* The roots that have an entry among the first n entries of a stack.
RootsUpTo(stack, n) == {stack[x].root : x \in 1..n}

\* The position of instance d in the tree.
TreeIndex(d) == CHOOSE i \in DOMAIN page.order : page.order[i] = d

\* C16: a root that registers while it has an entry keeps the entry's
\* position (the surviving entries before it stay the ones before it) and
\* gets the new callback, and the focused element of that moment when its
\* commit changes nothing else; a root without an entry is appended at the
\* end.  Hence a dialog that registers as it opens is the last entry after
\* the commit, whichever instances re-register in it and in whatever order.
C16_RegistrationKeepsPosition ==
    [][\A d \in Live :
          Registers(d) =>
              LET key == <<d, root'[d]>>
                  i   == IndexOf(dialogStack, key)
                  j   == IndexOf(dialogStack', key)
              IN  /\ j # 0
                  /\ dialogStack'[j].close = closeId'[d]
                  /\ IF i # 0
                     THEN /\ RootsUpTo(dialogStack', j - 1)
                                = RootsUpTo(dialogStack, i - 1)
                                    \cap RootsUpTo(dialogStack', Len(dialogStack'))
                          /\ (~page.shared /\ opened' = opened)
                                => dialogStack'[j].prior = focus
                     ELSE j = Len(dialogStack')
                  /\ Opens(d) => j = Len(dialogStack')]_vars

\* A dialog has just opened and is the last entry of the registry, and a
\* dialog below it that comes later in the tree re-registered in that commit.
C16_Witness ==
    \E d \in Live :
        /\ IsOpen(d) /\ IsTopmost(d) /\ root[d] = commits
        /\ \E e \in Live \ {d} :
              /\ IsOpen(e) /\ root[e] < commits
              /\ closeId[e] = <<e, commits>>
              /\ IndexOf(dialogStack, <<e, root[e]>>) # 0
              /\ TreeIndex(e) > TreeIndex(d)


----------------------------------------------------------------------------
(* Pruning.                                                                *)

\* The root of entry en is attached to the document after the step.
AttachedAfter(en) == root'[en.root[1]] = en.root[2]

\* C17: after a step in which a dialog registers, every entry of the
\* registry has an attached root, so there are no more entries than
\* attached dialog roots; a step in which no dialog registers (closing a
\* dialog among them) leaves the registry as it is, and an entry that a
\* step removes is one whose root is detached.
C17_PrunedOnRegistrationOnly ==
    [][/\ (\E d \in Live : Registers(d))
          => /\ \A i \in DOMAIN dialogStack' : AttachedAfter(dialogStack'[i])
             /\ Len(dialogStack') <= Cardinality({d \in Dialogs : root'[d] # 0})
       /\ (\A d \in Live : ~Registers(d)) => dialogStack' = dialogStack
       /\ \A i \in DOMAIN dialogStack :
             IndexOf(dialogStack', dialogStack[i].root) = 0
             => ~AttachedAfter(dialogStack[i])]_vars

\* A dialog that had registered was closed, and a registration of another
\* dialog has since removed its entry.
C17_Witness ==
    \E d \in Live :
        /\ closedBefore[d] /\ ~page.stable[d] /\ root[d] = 0
        /\ \A i \in DOMAIN dialogStack : dialogStack[i].root[1] # d
        /\ \E e \in Live \ {d} :
              /\ root[e] # 0 /\ closeId[e] = <<e, commits>>
              /\ IndexOf(dialogStack, <<e, root[e]>>) # 0


----------------------------------------------------------------------------
(* Registration and listeners over the life of a dialog.                   *)

\* C18: whenever a dialog is open with its root mounted, the registry has
\* an entry for that root (so every Escape, click or Tab that is handled,
\* and every final-focus target that is computed, finds it), for every
\* caller.
C18_OpenDialogIsRegistered ==
    \A d \in Live : IsOpen(d) => Registered(d)

\* C19: at every moment at which a dialog is closed, neither its Escape
\* listener nor its outside-click listener is attached to the document.
C19_NoListenersWhileClosed ==
    \A d \in Live : ~opened[d] => (escL[d] = NoClose /\ clickL[d] = NoClickL)

\* C20: no Escape keydown and no click invokes the close callback of a
\* dialog that is closed when the event arrives.
C20_NoCloseOfClosedDialog ==
    [][\A d \in Live : calls'[d] # 0 => opened[d]]_vars


----------------------------------------------------------------------------
(* The entry that is read as topmost.                                      *)

\* C21: whenever at least one dialog is open (and so whenever an Escape
\* keydown or a click is handled then), the last entry of the registry
\* belongs to a root that is attached to the document.
C21_TopEntryIsAttached ==
    ((\E d \in Live : IsOpen(d)) /\ dialogStack # <<>>)
        => root[TopEntry.root[1]] = TopEntry.root[2]


----------------------------------------------------------------------------
(* priorActiveElement and the final-focus target.                          *)

\* C22: for every entry of the registry whose dialog is mounted, the
\* recorded priorActiveElement is the element that held focus immediately
\* before that dialog opened (read in the claim's favour: the entries of
\* roots that are no longer mounted are not looked at).
C22_PriorIsFocusBeforeMount ==
    \A i \in DOMAIN dialogStack :
        root[dialogStack[i].root[1]] = dialogStack[i].root[2]
            => dialogStack[i].prior = activeBeforeOpen[dialogStack[i].root[1]]


\* Where focus is when a commit focuses nothing: on the element that had it,
\* or on document.body when that element was removed.
LeftAlone == IF Attached(root', focus) THEN focus ELSE BodyEl

\* The step closes d from the caller's own code or on Escape: events that
\* do not themselves move focus before the commit, as a click does.
ClosesWithoutClick(d) == Closes(d) /\ (Close(d) \/ Escape)

\* C23 as stated: when a dialog without placeFinalFocusAt closes, the
\* priorActiveElement of the entry that is last in the registry at that
\* time receives focus (if it is still keyboard-focusable; otherwise
\* nothing is focused).
C23_FocusFromTopEntryAtTeardown ==
    [][\A d \in Live :
          (ClosesWithoutClick(d) /\ ~page.finalRef[d] /\ dialogStack # <<>>)
          => focus' = IF Refocusable(TopEntry.prior) THEN TopEntry.prior
                      ELSE LeftAlone]_vars

\* C23, amended: the element is the final-focus target that was read when
\* the dialog opened, which for a dialog that registers as it opens is the
\* priorActiveElement of the last entry of the registry then.  At teardown
\* that target receives focus if it is still keyboard-focusable; otherwise
\* nothing is focused.
C23_FocusFromTopEntryAtOpen ==
    [][\A d \in Live :
          /\ (Opens(d) /\ ~page.finalRef[d] /\ Registers(d))
                => finalT'[d] = dialogStack'[Len(dialogStack')].prior
          /\ (ClosesWithoutClick(d) /\ ~page.finalRef[d])
                => focus' = IF Refocusable(finalT[d]) THEN finalT[d] ELSE LeftAlone]_vars


\* An Escape keydown has just closed a dialog whose entry had been
\* overwritten by a re-render: focus is on the element it was opened from,
\* not on the priorActiveElement of the last entry.
C23_Witness ==
    \E d \in Live :
        /\ calls = OnlyCallTo(d) /\ ~opened[d] /\ closedBefore[d]
        /\ ~page.stable[d] /\ ~page.shared /\ ~page.finalRef[d]
        /\ isKeyboardFocusable(focus) /\ focus[1] # d
        /\ dialogStack # <<>> /\ TopEntry.root[1] = d /\ TopEntry.prior # focus


----------------------------------------------------------------------------
(* The final-focus target is captured when the dialog opens.               *)

\* placeFinalFocusAt?.current as the final-focus effect of d tests it.
ExplicitFinalTarget(d) == IF page.finalRef[d] THEN refCurrent ELSE NoEl

\* d is open before and after the step.
StaysOpen(d) == opened[d] /\ opened'[d]

\* C24: the final-focus target of a dialog is fixed when the dialog opens:
\* it is what placeFinalFocusAt.current refers to at that moment if it
\* refers to an element; no step that leaves the dialog open changes it (a
\* re-registration, the opening of another dialog, an assignment to the
\* ref's current); and when the dialog closes that target, if it can
\* still take keyboard focus, is the element focused, else none is.
C24_FinalTargetFixedAtOpen ==
    [][\A d \in Live :
          /\ (Opens(d) /\ ExplicitFinalTarget(d) # NoEl)
                => finalT'[d] = ExplicitFinalTarget(d)
          /\ StaysOpen(d) => finalT'[d] = finalT[d]
          /\ ClosesWithoutClick(d)
                => focus' = IF Refocusable(finalT[d]) THEN finalT[d] ELSE LeftAlone]_vars

\* An Escape keydown has just closed the dialog given placeFinalFocusAt and
\* focus is on the "Next" button, although the ref has been pointed at the
\* trigger button since the dialog opened.
C24_Witness ==
    \E d \in Live :
        /\ calls = OnlyCallTo(d) /\ ~opened[d] /\ closedBefore[d]
        /\ page.finalRef[d] /\ ~page.stable[d]
        /\ focus = NextEl /\ refCurrent = TriggerEl


\* document.activeElement when the click on t has moved focus and no
\* focus() call follows in the commit.
LeftAloneAfterClick(t) ==
    IF Attached(root', FocusOnClick(t)) THEN FocusOnClick(t) ELSE BodyEl

\* C25: when a dialog closes and its final-focus target is absent or not
\* keyboard-focusable then (disabled, hidden, negative tab index, the
\* document body), no element is focused instead: focus stays where it was
\* (on the document body if the focused element left the document with the
\* dialog).
C25_NoFallbackFocus ==
    [][\A d \in Live :
          (Closes(d) /\ ~isKeyboardFocusable(finalT[d]))
          => /\ ClosesWithoutClick(d) => focus' = LeftAlone
             /\ \A t \in ClickTargets : Click(t) => focus' = LeftAloneAfterClick(t)]_vars

\* An Escape keydown has closed the dialog given placeFinalFocusAt, whose
\* ref points at a disabled button, and no element has focus.
C25_Witness ==
    \E d \in Live :
        /\ calls = OnlyCallTo(d) /\ ~opened[d] /\ closedBefore[d]
        /\ page.finalRef[d]
        /\ refCurrent = DisabledEl /\ focus = BodyEl


----------------------------------------------------------------------------
(* A marker on an element that cannot take focus.                          *)

\* dialog.querySelector('[data-place-focus]') on the root d has after the step.
NewExplicitTarget(d) == querySelectorPlaceFocus(d, root'[d])

\* C26: when a dialog opens and the element carrying data-place-focus is
\* disabled or hidden, the first keyboard-focusable descendant in document
\* order receives focus, also when the marked element carries tabindex="-1".
C26_UnfocusableMarkerFallsThrough ==
    [][\A d \in Live :
          (/\ Opens(d)
           /\ NewExplicitTarget(d) # NoEl
           /\ KindOf(NewExplicitTarget(d)).dis
           /\ NewFocusable(d) # {})
          => focus' = NewDescendants(d)[Min(NewFocusable(d))]]_vars


\* C27: when a dialog whose root has a keyboard-focusable descendant opens,
\* the focused element after the open is inside that root, wherever
\* data-place-focus markers are placed.
C27_InitialFocusInsideDialog ==
    [][\A d \in Live :
          (Opens(d) /\ NewFocusable(d) # {})
          => focus'[1] = d /\ focus'[2] = root'[d]]_vars


----------------------------------------------------------------------------
(* Errors in the Tab handler.                                              *)

\* C28: the Tab handler of an open dialog completes without an error for
\* every content of the dialog and every focused element; with no
\* keyboard-focusable descendant and focus on the dialog root it leaves
\* focus where it is.
C28_TabHandlerNeverThrows ==
    [][\A shift \in BOOLEAN :
          Tab(shift) =>
              /\ ~threw'
              /\ \A d \in Live :
                    (IsOpen(d) /\ Focusables(d) = <<>> /\ focus = RootOf(d))
                    => focus' = focus]_vars


----------------------------------------------------------------------------
(* One event, one close.                                                   *)

\* How many times the listeners of all instances called a close callback.
RECURSIVE TotalCalls(_, _)
TotalCalls(n, d) == IF d = 0 THEN 0 ELSE n[d] + TotalCalls(n, d - 1)

\* C29: a single Escape keydown or a single click invokes at most one close
\* callback and invokes it at most once, counting the listeners of every
\* Dialog instance, also when two instances were given the same function.
C29_AtMostOneCloseCall ==
    [][(Escape \/ \E t \in ClickTargets : Click(t))
          => TotalCalls(calls', NDialogs) <= 1]_vars


----------------------------------------------------------------------------
(* Closing a dialog that is not the topmost one.                           *)

\* C30: while dialog B is open on top of dialog A and focus is inside B,
\* closing A does not move focus to an element outside B.
C30_ClosingLowerDialogKeepsFocus ==
    [][\A a, b \in Live :
          (/\ a # b
           /\ IsOpen(a) /\ IsOpen(b)
           /\ MostRecentlyOpened = b
           /\ InsideRoot(b, focus)
           /\ Close(a))
          => InsideRoot(b, focus)']_vars


----------------------------------------------------------------------------
(* Focus moves to the final-focus target only at teardown.                 *)

\* C31: while a dialog stays open, no re-render moves focus to its
\* final-focus target, also when the re-render passes a different
\* placeFinalFocusAt ref object.
C31_NoFinalFocusWhileOpen ==
    [][\A d, x \in Live :
          (Rerender(x) /\ StaysOpen(d) /\ focus # finalT[d])
          => focus' # finalT[d]]_vars


----------------------------------------------------------------------------
(* Escape unwinds a nest of dialogs.                                       *)

\* The open dialogs without the one opened last.
AllButLast(seq) == SubSeq(seq, 1, Len(seq) - 1)

\* No dialog has been closed and opened again: the open dialogs are what is
\* left of a nest that was opened one dialog after another.
NestOpenedInSequence == \A d \in Live : closedBefore[d] => ~opened[d]

\* C32: with the dialogs of a nest opened one after another, each Escape
\* keydown (and the re-render its close callback triggers) closes the one
\* opened last among those still open and no other, so that as many
\* keydowns as there are dialogs close them in reverse order of opening
\* and leave none open.
C32_EscapeUnwindsTheNest ==
    [][(Escape /\ NestOpenedInSequence /\ StillOpen # <<>>)
          => /\ portals' = AllButLast(portals)
             /\ opened' = [opened EXCEPT ![MostRecentlyOpened] = FALSE]]_vars


----------------------------------------------------------------------------
(* The empty registry.                                                     *)

\* Some instance has a keydown or a click listener installed.
SomeListener == \E d \in Live : escL[d] # NoClose \/ clickL[d] # NoClickL

\* C33: when the registry is empty, an Escape keydown and a click invoke no
\* close callback, whatever listeners are installed.
C33_EmptyRegistryDisablesListeners ==
    [][(dialogStack = <<>> /\ (Escape \/ \E t \in ClickTargets : Click(t)))
          => calls' = NoCalls]_vars

\* An Escape keydown or a click has just been handled with listeners
\* installed and the registry empty, and no close callback was called.
C33_Witness ==
    /\ commits > 0 /\ dialogStack = <<>> /\ SomeListener
    /\ calls = NoCalls /\ tabbed = NoTab /\ ~logged
    /\ focus = TriggerEl


----------------------------------------------------------------------------
(* What the trap leaves to the browser.                                    *)

\* The focusable descendant of d that the key moves towards.
EdgeAhead(d, shift) == IF shift THEN FirstFocusable(d) ELSE LastFocusable(d)

\* e is a keyboard-focusable descendant of the open dialog d.
IsFocusableIn(d, e) == InsideRoot(d, e) /\ e[3] # 0 /\ isKeyboardFocusable(e)

\* C34: Tab or Shift+Tab with focus on a keyboard-focusable descendant that
\* is not the edge the key moves towards is left to the browser: the
\* default action is not prevented and focus goes where sequential
\* navigation takes it; and an Escape keydown, a key other than Tab, is
\* not intercepted by the trap.
C34_TrapLeavesTheRestAlone ==
    [][/\ \A d \in Live, shift \in BOOLEAN :
            (/\ Tab(shift)
             /\ IsOpen(d)
             /\ IsFocusableIn(d, focus)
             /\ focus # EdgeAhead(d, shift))
            => /\ ~prevented' /\ ~threw'
               /\ focus' = DefaultTab(focus, shift)
       /\ Escape => ~prevented' /\ ~threw']_vars

\* Tab on the first of two focusable descendants has just moved focus to
\* the second one by the browser's default action.
C34_Witness ==
    \E d \in Live :
        /\ IsOpen(d) /\ Len(Focusables(d)) = 2
        /\ querySelectorPlaceFocus(d, root[d]) = NoEl
        /\ focus = LastFocusable(d)
        /\ tabbed = NoTab /\ ~prevented /\ calls = NoCalls /\ ~logged
        /\ activeBeforeOpen[d] # focus
        /\ commits = 1


----------------------------------------------------------------------------
(* A container selector that matches nothing.                              *)

\* C35: when an open Dialog is rendered while its container selector
\* matches no element, the render raises no error: the dialog is not
\* shown and nothing is registered for it; and it is shown by a later
\* render once the container exists.
C35_MissingContainerIsNotAnError ==
    [][\A d \in Live :
          (/\ querySelectorContainer = NoEl
           /\ \/ Mount /\ page.initOpen[d]
              \/ Open(d)
              \/ opened[d] /\ \E x \in Live : d \in Owner(x) /\ Rerender(x))
          => /\ ~renderError'
             /\ opened'[d] /\ root'[d] = 0
             /\ \A i \in DOMAIN dialogStack' : dialogStack'[i].root[1] # d]_vars


----------------------------------------------------------------------------
(* A registration is local to its own entry.                               *)

\* C36: a registration changes only the entry of the root that registers
\* and removes only entries whose root is detached: the entry of every
\* other root that is still attached keeps its close callback and its
\* priorActiveElement, and the surviving entries keep their relative order.
C36_RegistrationIsLocal ==
    [][\A i \in DOMAIN dialogStack :
          LET en == dialogStack[i]
              j  == IndexOf(dialogStack', en.root)
          IN  /\ j = 0 => ~AttachedAfter(en)
              /\ (j # 0 /\ ~Registers(en.root[1])) => dialogStack'[j] = en
              /\ \A k \in DOMAIN dialogStack :
                    (i < k /\ j # 0 /\ IndexOf(dialogStack', dialogStack[k].root) # 0)
                    => j < IndexOf(dialogStack', dialogStack[k].root)]_vars

\* A dialog has just registered as it opened, above an open dialog whose
\* entry, written by an earlier commit, is still in the registry.
C36_Witness ==
    \E d, e \in Live :
        /\ d # e /\ IsOpen(d) /\ IsOpen(e)
        /\ root[d] = commits /\ closeId[d] = <<d, commits>> /\ IsTopmost(d)
        /\ closeId[e][2] < commits
        /\ IndexOf(dialogStack, <<e, root[e]>>) # 0
        /\ dialogStack[IndexOf(dialogStack, <<e, root[e]>>)].close = closeId[e]
        /\ dialogStack[IndexOf(dialogStack, <<e, root[e]>>)].prior # focus


----------------------------------------------------------------------------
(* isKeyboardFocusable.                                                    *)

\* What the code may pass to isKeyboardFocusable: null or undefined, the
\* page's own elements, and the root and the descendants of a mounted dialog.
Askable ==
    {NoEl, BodyEl, TriggerEl}
        \cup UNION {{<<d, root[d], i>> : i \in 0..Len(page.content[d])} :
                        d \in {x \in Live : root[x] # 0}}

\* C37: isKeyboardFocusable(x) is true exactly when x is an HTML element
\* that is itself neither disabled nor hidden and whose tab index is 0 or
\* more (a natively tabbable tag without a tabindex attribute, or
\* tabindex="0"); it is false for null, for an element that is not an
\* HTMLElement and for tab index -1, and it does not depend on the
\* element's ancestors.
C37_isKeyboardFocusableExact ==
    \A e \in Askable :
        isKeyboardFocusable(e)
            = /\ e # NoEl
              /\ KindOf(e).html
              /\ ~KindOf(e).dis
              /\ \/ KindOf(e).tab = "0"
                 \/ KindOf(e).tab = "none" /\ KindOf(e).inter

\* A dialog holding an <svg tabindex="0"> and a button inside a hidden
\* ancestor has opened: the implicit scan passed over the <svg>, took the
\* button for keyboard-focusable and logged nothing.
C37_Witness ==
    \E d \in Live :
        /\ IsOpen(d) /\ commits = 1
        /\ page.content[d] = <<SvgT, UnderHidden>>
        /\ ~isKeyboardFocusable(<<d, root[d], 1>>)
        /\ isKeyboardFocusable(<<d, root[d], 2>>)
        /\ ~logged /\ focus = BodyEl /\ calls = NoCalls /\ tabbed = NoTab

====
